---- MODULE Spec2Model ----
(***************************************************************************)
(* DLMS energy meter API server (MySQL version): the Express handlers of   *)
(* the ingestion and query endpoints, the mysql2 connection pool they      *)
(* share, and the two tables they read and write.                          *)
(*                                                                         *)
(* Time is counted in whole seconds (the resolution of the TIMESTAMP and   *)
(* DATETIME columns); the server and the store share one clock, `now`.     *)
(* An `await` is a point where other handlers may run, so every handler    *)
(* is a chain of steps, one per awaited store call.                        *)
(***************************************************************************)
EXTENDS Integers, Sequences, FiniteSets, TLC

(***************************************************************************)
(* Bounds of the model.                                                    *)
(***************************************************************************)
NumProcs == 2      \* requests in flight at the same time
MaxPosts == 2      \* ingestion requests received in one run
MaxFaults == 1     \* store calls that fail in one run
MaxTicks == 2      \* clock advances in one run
MaxQueries == 1    \* query requests received in one run

(***************************************************************************)
(* Program constants.                                                      *)
(***************************************************************************)
connectionLimit == 10
MaxReadings == 100
OverFetch == 10
DashboardRows == 10
OnlineMinutes == 2
MsPerMinute == 60000
WindowDays == 7

Day == 24 * 60 * 60
StartTime == 10 * Day
ActivePower == "1.0.1.7.0.255"
Null == "<NULL>"

Procs == 1 .. NumProcs

(***************************************************************************)
(* JavaScript values, as far as the handlers distinguish them.  A string   *)
(* that parseInt reads as a number n is a "numstr" carrying n.             *)
(***************************************************************************)
JsUndefined == [t |-> "undefined", s |-> "", n |-> 0]
JsString(str) == [t |-> "string", s |-> str, n |-> 0]
JsNumber(num) == [t |-> "number", s |-> "", n |-> num]
JsObject(json) == [t |-> "object", s |-> json, n |-> 0]
JsNumStr(num) == [t |-> "numstr", s |-> ToString(num), n |-> num]

\* !v is false
Truthy(v) ==
    CASE v.t = "string" -> v.s # ""
      [] v.t = "numstr" -> TRUE
      [] v.t = "number" -> v.n # 0
      [] v.t = "object" -> TRUE
      [] OTHER -> FALSE

\* a value bound to a `?` of a statement and stored in a text column
SqlText(v) ==
    CASE v.t = "string" -> v.s
      [] v.t = "numstr" -> v.s
      [] v.t = "number" -> ToString(v.n)
      [] v.t = "object" -> v.s
      [] OTHER -> Null

\* JSON.stringify(device_info || {})
StringifyDeviceInfo(v) == IF Truthy(v) THEN SqlText(v) ELSE "{}"

\* Array.isArray(readings), readings.length
NotAnArray == [isArray |-> FALSE, items |-> << >>]
JsArray(items) == [isArray |-> TRUE, items |-> items]

(***************************************************************************)
(* validateApiKey                                                          *)
(***************************************************************************)
validKeys == {"poc_demo_key_2024", "demo_key_12345"}

\* header && header.split(' ')[1] is the `apiKey` the request carries
validateApiKey(apiKey) == Truthy(apiKey) /\ apiKey.s \in validKeys

(***************************************************************************)
(* The tables.  meters is a set of rows (meter_id is UNIQUE by the         *)
(* statement that writes it, not by construction of the model);            *)
(* meter_readings is the sequence of rows in AUTO_INCREMENT order, so a    *)
(* row's id is its index.                                                  *)
(***************************************************************************)
VARIABLES
    now,            \* the clock, seconds
    meters,         \* table meters
    meter_readings, \* table meter_readings
    held,           \* pool: connections checked out and not released
    pc,             \* per request slot: where its handler stands
    req,            \* per request slot: the request being handled
    conn,           \* per request slot: the handler holds a connection
    idx,            \* per request slot: position of the for-loop over readings
    loc,            \* per request slot: results of earlier queries of the handler
    resp,           \* per request slot: the response sent
    ins,            \* per request slot: ids of the rows the request inserted
    err,            \* per request slot: what the handler's catch caught
    hist,           \* per meter_id: time of the first upsert, the latest upsert
    posts, queries, faults, ticks   \* the counters the bounds cap

vars == << now, meters, meter_readings, held, pc, req, conn, idx, loc, resp,
           ins, err, hist, posts, queries, faults, ticks >>

store == << meters, meter_readings >>

NoReq == [kind |-> "none"]
NoResp == [status |-> 0]
NoLoc == [meterInfo |-> << >>, latest |-> << >>]

\* INSERT INTO meters ... ON DUPLICATE KEY UPDATE ..., one statement
UpsertReplace(ms, meter_id, location, device_info, t) ==
    IF \E m \in ms : m.meter_id = meter_id
    THEN { IF m.meter_id = meter_id
           THEN [m EXCEPT !.location = location, !.device_info = device_info,
                          !.first_seen = t, !.last_seen = t]
           ELSE m : m \in ms }
    ELSE ms \cup {[meter_id |-> meter_id, location |-> location,
                   device_info |-> device_info,
                   first_seen |-> t, last_seen |-> t]}

Upsert(ms, meter_id, location, device_info, t) ==
    IF \E m \in ms : m.meter_id = meter_id
    THEN { IF m.meter_id = meter_id
           THEN [m EXCEPT !.location = location, !.device_info = device_info,
                          !.last_seen = t]
           ELSE m : m \in ms }
    ELSE ms \cup {[meter_id |-> meter_id, location |-> location,
                   device_info |-> device_info,
                   first_seen |-> t, last_seen |-> t]}

\* the row one INSERT INTO meter_readings writes
ReadingRow(meter_id, timestamp, sequence, r) ==
    [meter_id |-> meter_id, timestamp |-> timestamp,
     sequence_number |-> sequence,
     obis_code |-> r.obis_code, description |-> r.description,
     value |-> r.value, unit |-> r.unit, scaler |-> r.scaler]

Init ==
    /\ now = StartTime
    /\ meters = {}
    /\ meter_readings = << >>
    /\ held = 0
    /\ pc = [p \in Procs |-> "idle"]
    /\ req = [p \in Procs |-> NoReq]
    /\ conn = [p \in Procs |-> FALSE]
    /\ idx = [p \in Procs |-> 0]
    /\ loc = [p \in Procs |-> NoLoc]
    /\ resp = [p \in Procs |-> NoResp]
    /\ ins = [p \in Procs |-> {}]
    /\ err = [p \in Procs |-> "none"]
    /\ hist = {}
    /\ posts = 0
    /\ queries = 0
    /\ faults = 0
    /\ ticks = 0

(***************************************************************************)
(* Responses.                                                              *)
(***************************************************************************)
Unauthorized == [status |-> 401, body |-> [status |-> "error", message |-> "Invalid API key"]]
InvalidPayload == [status |-> 400, body |-> [status |-> "error", message |-> "Invalid payload"]]
TooManyReadings == [status |-> 400, body |-> [status |-> "error", message |-> "Too many readings (max 100)"]]
DbError == [status |-> 500, body |-> [status |-> "error", message |-> "DB error"]]
Received(n) == [status |-> 200, body |-> [status |-> "success", readings_received |-> n]]
Success(data) == [status |-> 200, body |-> [status |-> "success", data |-> data]]

\* the handler of p answers r and returns
Respond(p, r) ==
    /\ resp' = [resp EXCEPT ![p] = r]
    /\ pc' = [pc EXCEPT ![p] = "responded"]

(***************************************************************************)
(* POST /api/v1/meter-readings                                             *)
(***************************************************************************)
\* the checks made before the first await
TooManyAtLimit(body) == Len(body.readings.items) >= MaxReadings

TooManyPastLimit(body) == Len(body.readings.items) > MaxReadings + 1

TooMany(body) == Len(body.readings.items) > MaxReadings

InvalidWhenEmpty(body) ==
    ~Truthy(body.meter_id) \/ ~body.readings.isArray \/ Len(body.readings.items) = 0

Invalid(body) == ~Truthy(body.meter_id) \/ ~body.readings.isArray

PostReceive(p, r) ==
    /\ pc[p] = "idle"
    /\ r.kind = "post"
    /\ posts' = posts + 1
    /\ req' = [req EXCEPT ![p] = r]
    /\ ins' = [ins EXCEPT ![p] = {}]
    /\ err' = [err EXCEPT ![p] = "none"]
    /\ IF ~validateApiKey(r.apiKey) THEN Respond(p, Unauthorized)
       ELSE IF Invalid(r.body) THEN Respond(p, InvalidPayload)
       ELSE IF TooMany(r.body) THEN Respond(p, TooManyReadings)
       ELSE /\ pc' = [pc EXCEPT ![p] = "getConnection"]
            /\ resp' = [resp EXCEPT ![p] = NoResp]
    /\ UNCHANGED << now, meters, meter_readings, held, conn, idx, loc, hist,
                    queries, faults, ticks >>

\* await pool.getConnection(): waits while every connection is checked out
PostGetConnection(p) ==
    /\ pc[p] = "getConnection"
    /\ held < connectionLimit
    /\ held' = held + 1
    /\ conn' = [conn EXCEPT ![p] = TRUE]
    /\ pc' = [pc EXCEPT ![p] = "upsert"]
    /\ UNCHANGED << now, meters, meter_readings, req, idx, loc, resp, ins, err,
                    hist, posts, queries, faults, ticks >>

\* what the run has seen of the upserts of each meter_id
Record(h, meter_id, location, device_info, t) ==
    IF \E e \in h : e.meter_id = meter_id
    THEN { IF e.meter_id = meter_id
           THEN [e EXCEPT !.location = location, !.device_info = device_info,
                          !.last = t, !.count = 2]
           ELSE e : e \in h }
    ELSE h \cup {[meter_id |-> meter_id, location |-> location,
                  device_info |-> device_info, first |-> t, last |-> t,
                  count |-> 1]}

PostUpsert(p) ==
    /\ pc[p] = "upsert"
    /\ LET b == req[p].body
           id == SqlText(b.meter_id)
           l == SqlText(b.location)
           d == StringifyDeviceInfo(b.device_info)
       IN /\ meters' = Upsert(meters, id, l, d, now)
          /\ hist' = Record(hist, id, l, d, now)
    /\ idx' = [idx EXCEPT ![p] = 1]
    /\ pc' = [pc EXCEPT ![p] = "insert"]
    /\ UNCHANGED << now, meter_readings, held, req, conn, loc, resp, ins, err,
                    posts, queries, faults, ticks >>

\* one turn of for (let r of readings) await conn.query(sql, [...])
Insert(p) ==
    LET b == req[p].body
    IN Append(meter_readings,
              ReadingRow(SqlText(b.meter_id), b.timestamp, b.sequence,
                         b.readings.items[idx[p]]))

PostInsert(p) ==
    /\ pc[p] = "insert"
    /\ idx[p] <= Len(req[p].body.readings.items)
    /\ meter_readings' = Insert(p)
    /\ ins' = [ins EXCEPT ![p] = @ \cup {Len(meter_readings) + 1}]
    /\ idx' = [idx EXCEPT ![p] = @ + 1]
    /\ UNCHANGED << now, meters, held, pc, req, conn, loc, resp, err, hist,
                    posts, queries, faults, ticks >>

\* conn.release(); return res.json({status: 'success', readings_received})
PostAnswer(p) == Received(Len(req[p].body.readings.items))

PostRelease(p) ==
    /\ pc[p] = "insert"
    /\ idx[p] > Len(req[p].body.readings.items)
    /\ held' = held - 1
    /\ conn' = [conn EXCEPT ![p] = FALSE]
    /\ Respond(p, PostAnswer(p))
    /\ UNCHANGED << now, meters, meter_readings, req, idx, loc, ins, err, hist,
                    posts, queries, faults, ticks >>

\* the awaited call throws; catch (err) answers 500.  Nothing releases the
\* connection the handler holds: it stays checked out of the pool.  (While
\* every connection is checked out getConnection waits and cannot throw.)
CaughtSwallowed(p) == Received(Cardinality(ins[p]))

Caught(p) == DbError

PostThrow(p) ==
    /\ \/ pc[p] = "getConnection" /\ held < connectionLimit
       \/ pc[p] = "upsert"
       \/ pc[p] = "insert" /\ idx[p] <= Len(req[p].body.readings.items)
    /\ faults' = faults + 1
    /\ err' = [err EXCEPT ![p] = "StoreError"]
    /\ conn' = [conn EXCEPT ![p] = FALSE]
    /\ Respond(p, Caught(p))
    /\ UNCHANGED << now, meters, meter_readings, held, req, idx, loc, ins,
                    hist, posts, queries, ticks >>

\* the response is on the wire; the slot takes the next request
Finish(p) ==
    /\ pc[p] = "responded"
    /\ pc' = [pc EXCEPT ![p] = "idle"]
    /\ req' = [req EXCEPT ![p] = NoReq]
    /\ resp' = [resp EXCEPT ![p] = NoResp]
    /\ ins' = [ins EXCEPT ![p] = {}]
    /\ err' = [err EXCEPT ![p] = "none"]
    /\ idx' = [idx EXCEPT ![p] = 0]
    /\ loc' = [loc EXCEPT ![p] = NoLoc]
    /\ UNCHANGED << now, meters, meter_readings, held, conn, hist, posts,
                    queries, faults, ticks >>

\* the clock advances by d seconds
Tick(d) ==
    /\ now' = now + d
    /\ ticks' = ticks + 1
    /\ UNCHANGED << meters, meter_readings, held, pc, req, conn, idx, loc,
                    resp, ins, err, hist, posts, queries, faults >>

(***************************************************************************)
(* pool.query(sql, params): takes a connection of the pool (waiting while  *)
(* every one is checked out), runs the statement and returns the           *)
(* connection, whether the statement succeeded or not.  The three happen   *)
(* in one step of the model: the connection is back before anything else   *)
(* runs.                                                                   *)
(***************************************************************************)
PoolQueryReady == held < connectionLimit

\* a query request arrives; its handler's first statement is an await
QueryReceive(p, r, first) ==
    /\ pc[p] = "idle"
    /\ queries' = queries + 1
    /\ req' = [req EXCEPT ![p] = r]
    /\ pc' = [pc EXCEPT ![p] = first]
    /\ UNCHANGED << now, meters, meter_readings, held, conn, idx, loc, resp,
                    ins, err, hist, posts, faults, ticks >>

\* the awaited pool.query of a query handler throws; catch (e) answers 500
QueryThrow(p) ==
    /\ pc[p] \in {"listQuery", "latestQuery", "dashMeterInfo", "dashLatest", "dashDaily"}
    /\ PoolQueryReady
    /\ faults' = faults + 1
    /\ err' = [err EXCEPT ![p] = "StoreError"]
    /\ Respond(p, DbError)
    /\ UNCHANGED << now, meters, meter_readings, held, req, conn, idx, loc,
                    ins, hist, posts, queries, ticks >>

(***************************************************************************)
(* Sorting and selecting rows, as the SELECT statements do.                *)
(***************************************************************************)
Min(a, b) == IF a < b THEN a ELSE b

\* ids of the rows of a meter
RowsOf(rows, meterId) == {i \in 1 .. Len(rows) : rows[i].meter_id = meterId}

\* ORDER BY timestamp DESC, id DESC
Newer(rows, i, j) ==
    \/ rows[i].timestamp > rows[j].timestamp
    \/ rows[i].timestamp = rows[j].timestamp /\ i > j

RECURSIVE OrderDesc(_, _)
OrderDesc(rows, ids) ==
    IF ids = {} THEN << >>
    ELSE LET top == CHOOSE i \in ids : \A j \in ids \ {i} : Newer(rows, i, j)
         IN << top >> \o OrderDesc(rows, ids \ {top})

\* SELECT * FROM meter_readings WHERE meter_id=? ORDER BY timestamp DESC, id DESC LIMIT ?
SelectLatest(rows, meterId, n) ==
    LET ids == OrderDesc(rows, RowsOf(rows, meterId))
    IN [k \in 1 .. Min(n, Len(ids)) |-> rows[ids[k]]]

(***************************************************************************)
(* GET /api/v1/meters/:meterId/latest                                      *)
(***************************************************************************)
\* parseInt(req.query.limit) || 1
LimitOf(v) == IF v.t = "numstr" /\ v.n # 0 THEN v.n ELSE 1

ReadingOf(r) ==
    [obis_code |-> r.obis_code, description |-> r.description,
     value |-> r.value, unit |-> r.unit, scaler |-> r.scaler]

\* rows.forEach(r => { if (!out[r.timestamp]) out[r.timestamp] = {...};
\*                     out[r.timestamp].readings.push({...}) })
\* out keeps its keys in the order they were first set
RECURSIVE GroupByTimestamp(_, _)
GroupByTimestamp(rows, out) ==
    IF rows = << >> THEN out
    ELSE LET r == Head(rows)
             at == {k \in 1 .. Len(out) : out[k].timestamp = r.timestamp}
         IN IF at = {}
            THEN GroupByTimestamp(Tail(rows),
                    Append(out, [timestamp |-> r.timestamp,
                                 sequence_number |-> r.sequence_number,
                                 readings |-> << ReadingOf(r) >>]))
            ELSE LET k == CHOOSE k \in at : TRUE
                 IN GroupByTimestamp(Tail(rows),
                       [out EXCEPT ![k].readings = Append(@, ReadingOf(r))])

\* Object.values(out).slice(0, limit), limit >= 1
Slice(out, limit) == SubSeq(out, 1, Min(limit, Len(out)))

FetchNoOverFetch(limit) == limit

Fetch(limit) == limit * OverFetch

LatestSamplesNoSlice(rows, meterId, limit) ==
    GroupByTimestamp(SelectLatest(rows, meterId, Fetch(limit)), << >>)

LatestSamples(rows, meterId, limit) ==
    Slice(GroupByTimestamp(SelectLatest(rows, meterId, Fetch(limit)), << >>), limit)

Latest(meterId, limit) == [kind |-> "latest", meterId |-> meterId, limit |-> limit]

\* LIMIT -10 is no statement the store accepts: pool.query throws
Rejected(limit) == Fetch(LimitOf(limit)) < 0

\* what the handler answers to /meters/<meterId>/latest?limit=<limit>
LatestAnswer(meterId, limit) ==
    IF Rejected(limit) THEN DbError
    ELSE Success(LatestSamples(meter_readings, meterId, LimitOf(limit)))

LatestQuery(p) ==
    /\ pc[p] = "latestQuery"
    /\ PoolQueryReady
    /\ err' = [err EXCEPT ![p] = IF Rejected(req[p].limit) THEN "ER_PARSE_ERROR" ELSE "none"]
    /\ Respond(p, LatestAnswer(req[p].meterId, req[p].limit))
    /\ UNCHANGED << now, meters, meter_readings, held, req, conn, idx, loc,
                    ins, hist, posts, queries, faults, ticks >>

(***************************************************************************)
(* GET /api/v1/meters                                                      *)
(***************************************************************************)
isOnlineInclusive(last) == (now * 1000 - last * 1000) <= OnlineMinutes * MsPerMinute

\* diff = (Date.now() - new Date(last)) / 60000; return diff < 2
isOnline(last) == (now * 1000 - last * 1000) < OnlineMinutes * MsPerMinute

RECURSIVE MaxOf(_)
MaxOf(S) == LET x == CHOOSE x \in S : TRUE
            IN IF S = {x} THEN x
               ELSE LET m == MaxOf(S \ {x}) IN IF x > m THEN x ELSE m

\* JSON.parse(r.device_info || '{}'): the object the text denotes
JsonParse(text) == JsObject(IF text = "" \/ text = Null THEN "{}" ELSE text)

\* one row of the LEFT JOIN ... GROUP BY m.meter_id, mapped for the response
MeterEntry(m) ==
    LET ids == RowsOf(meter_readings, m.meter_id)
    IN [meter_id |-> m.meter_id,
        location |-> m.location,
        device_info |-> JsonParse(m.device_info),
        total_readings |-> Cardinality(ids),
        first_seen |-> m.first_seen,
        last_seen |-> m.last_seen,
        latest_reading_time |->
            IF ids = {} THEN -1
            ELSE MaxOf({meter_readings[i].timestamp : i \in ids}),
        status |-> IF isOnline(m.last_seen) THEN "online" ELSE "offline"]

\* ORDER BY m.last_seen DESC: rows of equal last_seen come in any order
Listings ==
    { s \in [1 .. Cardinality(meters) -> {MeterEntry(m) : m \in meters}] :
        /\ \A i, j \in DOMAIN s : i # j => s[i] # s[j]
        /\ \A i, j \in DOMAIN s : i < j => s[i].last_seen >= s[j].last_seen }

List == [kind |-> "list"]

ListQuery(p) ==
    /\ pc[p] = "listQuery"
    /\ PoolQueryReady
    /\ \E data \in Listings : Respond(p, Success(data))
    /\ UNCHANGED << now, meters, meter_readings, held, req, conn, idx, loc,
                    ins, err, hist, posts, queries, faults, ticks >>

(***************************************************************************)
(* GET /api/v1/dashboard/data                                              *)
(***************************************************************************)
\* DATE(timestamp)
DateOf(ts) == ts \div Day

\* timestamp >= DATE_SUB(NOW(), INTERVAL 7 DAY)
InWindowAlways(ts) == TRUE

InWindow(ts) == ts >= now - WindowDays * Day

RECURSIVE SumValues(_, _)
SumValues(rows, ids) ==
    IF ids = {} THEN 0
    ELSE LET i == CHOOSE i \in ids : TRUE
         IN rows[i].value + SumValues(rows, ids \ {i})

\* AVG(CASE WHEN obis_code='1.0.1.7.0.255' THEN value END): NULL over no
\* row, else the exact quotient sum / count
Avg(rows, ids) ==
    IF ids = {} THEN [null |-> TRUE, sum |-> 0, count |-> 0]
    ELSE [null |-> FALSE, sum |-> SumValues(rows, ids), count |-> Cardinality(ids)]

RECURSIVE DatesDesc(_)
DatesDesc(S) ==
    IF S = {} THEN << >>
    ELSE LET d == MaxOf(S) IN << d >> \o DatesDesc(S \ {d})

DailyEntry(rows, ids, d) ==
    LET of == {i \in ids : DateOf(rows[i].timestamp) = d}
    IN [date |-> d,
        reading_count |-> Cardinality(of),
        avg_power |-> Avg(rows, {i \in of : rows[i].obis_code = ActivePower})]

\* SELECT DATE(timestamp) AS date, COUNT(*), AVG(...) FROM meter_readings
\* WHERE ... GROUP BY DATE(timestamp) ORDER BY date DESC
Daily(rows) ==
    LET ids == {i \in 1 .. Len(rows) : InWindow(rows[i].timestamp)}
        dates == DatesDesc({DateOf(rows[i].timestamp) : i \in ids})
    IN [k \in 1 .. Len(dates) |-> DailyEntry(rows, ids, dates[k])]

Dashboard == [kind |-> "dashboard"]

\* SELECT * FROM meters ORDER BY last_seen DESC LIMIT 1
DashMeterInfo(p) ==
    /\ pc[p] = "dashMeterInfo"
    /\ PoolQueryReady
    /\ \E info \in IF meters = {} THEN {<< >>}
                   ELSE {<< m >> : m \in {m \in meters :
                            \A o \in meters : m.last_seen >= o.last_seen}} :
          loc' = [loc EXCEPT ![p].meterInfo = info]
    /\ pc' = [pc EXCEPT ![p] = "dashLatest"]
    /\ UNCHANGED << now, meters, meter_readings, held, req, conn, idx, resp,
                    ins, err, hist, posts, queries, faults, ticks >>

\* meter_id = meterInfo.length ? meterInfo[0].meter_id : null; ... LIMIT 10
DashLatest(p) ==
    /\ pc[p] = "dashLatest"
    /\ PoolQueryReady
    /\ LET info == loc[p].meterInfo
           meter_id == IF Len(info) > 0 THEN info[1].meter_id ELSE Null
       IN loc' = [loc EXCEPT ![p].latest =
                    SelectLatest(meter_readings, meter_id, DashboardRows)]
    /\ pc' = [pc EXCEPT ![p] = "dashDaily"]
    /\ UNCHANGED << now, meters, meter_readings, held, req, conn, idx, resp,
                    ins, err, hist, posts, queries, faults, ticks >>

DashDaily(p) ==
    /\ pc[p] = "dashDaily"
    /\ PoolQueryReady
    /\ Respond(p, Success([meterInfo |-> loc[p].meterInfo,
                           latest |-> loc[p].latest,
                           daily |-> Daily(meter_readings)]))
    /\ UNCHANGED << now, meters, meter_readings, held, req, conn, idx, loc,
                    ins, err, hist, posts, queries, faults, ticks >>

(***************************************************************************)
(* Requests of the ingestion workload.                                     *)
(***************************************************************************)
Reading(code, value) ==
    [obis_code |-> code, description |-> "reading", value |-> value,
     unit |-> "W", scaler |-> 0]

\* n readings of n distinct OBIS codes from the k-th on; the first code is
\* the active power
Obis(k) == IF k = 1 THEN ActivePower ELSE "1.0." \o ToString(k) \o ".8.0.255"
ReadingsFrom(first, n, v) == [k \in 1 .. n |-> Reading(Obis(first + k - 1), v * k)]
Readings(n) == ReadingsFrom(1, n, 100)

Body(m, l, d, ts, seq, rs) ==
    [meter_id |-> m, location |-> l, device_info |-> d, timestamp |-> ts,
     sequence |-> seq, readings |-> rs]

Post(key, body) == [kind |-> "post", apiKey |-> key, body |-> body]

GoodKey == JsString("poc_demo_key_2024")
BadKeys == {JsString("invalid_key_123"), JsUndefined}
DeviceInfo == JsObject("{\"model\":\"TM-100\"}")

IngestBodies ==
    { Body(JsString(m), JsString(md[1]), md[2], ts[1], ts[2], JsArray(Readings(n))) :
        m \in {"M1", "M2"},
        md \in {<<"A", JsUndefined>>, <<"B", DeviceInfo>>},
        ts \in {<<StartTime - Day, 1>>, <<StartTime, 2>>},
        n \in {0, 1, 2} }

SomeBody == Body(JsString("M1"), JsString("A"), JsUndefined, StartTime, 1, JsArray(Readings(1)))

\* payloads the validator is there for
OddBodies ==
    { [SomeBody EXCEPT !.meter_id = m, !.readings = rs] :
        m \in {JsString("M1"), JsString(""), JsUndefined, JsNumber(0), JsNumber(7)},
        rs \in {NotAnArray, JsArray(Readings(1)), JsArray(Readings(MaxReadings + 1))} }

IngestRequests ==
    {Post(GoodKey, b) : b \in IngestBodies \cup OddBodies}
    \cup {Post(k, SomeBody) : k \in BadKeys}

Next ==
    \/ \E p \in Procs :
        \/ posts < MaxPosts /\ \E r \in IngestRequests : PostReceive(p, r)
        \/ PostGetConnection(p)
        \/ PostUpsert(p)
        \/ PostInsert(p)
        \/ PostRelease(p)
        \/ faults < MaxFaults /\ PostThrow(p)
        \/ Finish(p)
    \/ ticks < MaxTicks /\ Tick(90)

Spec == Init /\ [][Next]_vars

(***************************************************************************)
(* The query workload: samples of one meter, of 0, 1 and 10 readings, at   *)
(* two timestamps, and latest-samples queries over them.                   *)
(***************************************************************************)
Earlier == StartTime - Day

SampleBodies ==
    { Body(JsString("M1"), JsString("A"), JsUndefined, ts[1], ts[2], JsArray(Readings(n))) :
        ts \in {<<Earlier, 1>>, <<StartTime, 2>>, <<StartTime, 1>>}, n \in {1, OverFetch} }
    \cup {Body(JsString("M1"), JsString("A"), JsUndefined, StartTime, 2, JsArray(Readings(0))),
          Body(JsString("M2"), JsString("B"), DeviceInfo, StartTime, 1, JsArray(Readings(1)))}

SampleRequests == {Post(GoodKey, b) : b \in SampleBodies}

LatestRequests ==
    { Latest("M1", l) : l \in {JsUndefined, JsString("abc"), JsNumStr(0), JsNumStr(2), JsNumStr(-1)} }
    \cup {Latest("M9", JsUndefined)}

\* no ingestion is under way: this workload ingests one sample after the other
Quiet == \A q \in Procs : pc[q] \notin {"getConnection", "upsert", "insert"}

QueryNext ==
    \E p \in Procs :
        \/ posts < MaxPosts /\ Quiet /\ \E r \in SampleRequests : PostReceive(p, r)
        \/ PostGetConnection(p)
        \/ PostUpsert(p)
        \/ PostInsert(p)
        \/ PostRelease(p)
        \/ faults < MaxFaults /\ PostThrow(p)
        \/ queries < MaxQueries /\ \E r \in LatestRequests : QueryReceive(p, r, "latestQuery")
        \/ LatestQuery(p)
        \/ faults < MaxFaults /\ QueryThrow(p)
        \/ Finish(p)

QuerySpec == Init /\ [][QueryNext]_vars

(***************************************************************************)
(* The bulk workload: samples of up to MaxReadings readings and one        *)
(* beyond, ingested one after the other.                                   *)
(***************************************************************************)
BulkBodies ==
    { Body(JsString("M1"), JsString("A"), JsUndefined, ts[1], ts[2], JsArray(Readings(n))) :
        ts \in {<<Earlier, 1>>, <<StartTime, 2>>},
        n \in {0, 1, MaxReadings, MaxReadings + 1} }
    \cup {Body(JsString("M2"), JsString("B"), DeviceInfo, StartTime, 1, JsArray(Readings(2)))}

BulkRequests == {Post(GoodKey, b) : b \in BulkBodies}

BulkNext ==
    \E p \in Procs :
        \/ posts < MaxPosts /\ Quiet /\ \E r \in BulkRequests : PostReceive(p, r)
        \/ PostGetConnection(p)
        \/ PostUpsert(p)
        \/ PostInsert(p)
        \/ PostRelease(p)
        \/ faults < MaxFaults /\ PostThrow(p)
        \/ Finish(p)

BulkSpec == Init /\ [][BulkNext]_vars

(***************************************************************************)
(* The dashboard workload: samples on both sides of the 7-day window,      *)
(* with and without active power, the meter listing and the dashboard.     *)
(***************************************************************************)
WindowEdge == StartTime - WindowDays * Day

DashBodies ==
    { Body(JsString(x[1]), JsString("A"), JsUndefined, x[2], 1, JsArray(ReadingsFrom(x[3], 1, x[4]))) :
        x \in {<<"M1", WindowEdge, 1, 10>>, <<"M1", WindowEdge + 3600, 2, 20>>,
               <<"M1", StartTime, 1, 30>>, <<"M2", StartTime, 2, 40>>} }

DashRequests == {Post(GoodKey, b) : b \in DashBodies}

DashNext ==
    \/ \E p \in Procs :
        \/ posts < MaxPosts /\ \E r \in DashRequests : PostReceive(p, r)
        \/ PostGetConnection(p)
        \/ PostUpsert(p)
        \/ PostInsert(p)
        \/ PostRelease(p)
        \/ queries < MaxQueries /\ QueryReceive(p, List, "listQuery")
        \/ queries < MaxQueries /\ QueryReceive(p, Dashboard, "dashMeterInfo")
        \/ ListQuery(p)
        \/ DashMeterInfo(p)
        \/ DashLatest(p)
        \/ DashDaily(p)
        \/ faults < MaxFaults /\ QueryThrow(p)
        \/ Finish(p)
    \/ ticks < MaxTicks /\ \E d \in {30, 90} : Tick(d)

DashSpec == Init /\ [][DashNext]_vars

(***************************************************************************)
(* The heartbeat workload: a meter that reports samples with and without   *)
(* readings, the meter listing, and the clock.                             *)
(***************************************************************************)
HeartbeatBodies ==
    { Body(JsString(x[1]), JsString(x[2]), JsUndefined, StartTime, x[3], JsArray(Readings(x[4]))) :
        x \in {<<"M1", "A", 1, 1>>, <<"M1", "B", 2, 0>>, <<"M2", "A", 1, 0>>} }

HeartbeatRequests == {Post(GoodKey, b) : b \in HeartbeatBodies}

HeartbeatNext ==
    \/ \E p \in Procs :
        \/ posts < MaxPosts /\ \E r \in HeartbeatRequests : PostReceive(p, r)
        \/ PostGetConnection(p)
        \/ PostUpsert(p)
        \/ PostInsert(p)
        \/ PostRelease(p)
        \/ faults < MaxFaults /\ PostThrow(p)
        \/ queries < MaxQueries /\ QueryReceive(p, List, "listQuery")
        \/ ListQuery(p)
        \/ Finish(p)
    \/ ticks < MaxTicks /\ Tick(90)

HeartbeatSpec == Init /\ [][HeartbeatNext]_vars

(***************************************************************************)
(* The pool workload: requests without readings and a store that may fail  *)
(* as many calls as the pool has connections.  The pool serves its waiters *)
(* first come, first served, and the store answers every call: a handler   *)
(* that can take a step takes it.                                          *)
(***************************************************************************)
PoolRequests == {Post(GoodKey, Body(JsString("M1"), JsString("A"), JsUndefined, StartTime, 1, JsArray(Readings(0))))}

HandlerStep(p) ==
    \/ PostGetConnection(p)
    \/ PostUpsert(p)
    \/ PostRelease(p)
    \/ ListQuery(p)
    \/ Finish(p)

PoolNext ==
    \E p \in Procs :
        \/ posts < connectionLimit + NumProcs /\ \E r \in PoolRequests : PostReceive(p, r)
        \/ queries < MaxQueries /\ QueryReceive(p, List, "listQuery")
        \/ HandlerStep(p)
        \/ faults < connectionLimit /\ PostThrow(p)

PoolSpec ==
    /\ Init
    /\ [][PoolNext]_vars
    /\ \A p \in Procs : SF_vars(HandlerStep(p))

(***************************************************************************)
(* Properties.                                                             *)
(***************************************************************************)
Responded(p, kind) == pc[p] = "responded" /\ req[p].kind = kind

\* request r arrives at slot p in this step
Arrives(p, kind) == pc[p] = "idle" /\ pc'[p] # "idle" /\ req'[p].kind = kind

NonEmptyString(v) == v.t = "string" /\ v.s # ""

Count(p) == Len(req[p].body.readings.items)

\* C1: an authenticated ingestion request with a valid meter_id and 1 to 100
\* readings, every write of which the store accepted, is answered
\* {status: "success", readings_received: n}, n the number of readings, and
\* has stored exactly n new rows, one per reading, each with the request's
\* meter_id, timestamp and sequence number.
C1_IngestStoresEveryReading ==
    \A p \in Procs :
        ( /\ Responded(p, "post")
          /\ validateApiKey(req[p].apiKey)
          /\ NonEmptyString(req[p].body.meter_id)
          /\ req[p].body.readings.isArray
          /\ Count(p) \in 1 .. MaxReadings
          /\ err[p] = "none" )
        => LET b == req[p].body
           IN /\ resp[p] = [status |-> 200,
                            body |-> [status |-> "success",
                                      readings_received |-> Count(p)]]
              /\ Cardinality(ins[p]) = Count(p)
              /\ \A i \in ins[p] :
                    /\ i \in 1 .. Len(meter_readings)
                    /\ meter_readings[i].meter_id = b.meter_id.s
                    /\ meter_readings[i].timestamp = b.timestamp
                    /\ meter_readings[i].sequence_number = b.sequence
              /\ \A k \in 1 .. Count(p) :
                    \E i \in ins[p] :
                        /\ meter_readings[i].obis_code = b.readings.items[k].obis_code
                        /\ meter_readings[i].value = b.readings.items[k].value

\* a sample of MaxReadings readings was accepted and stored
C1_Witness ==
    \E p \in Procs :
        /\ Responded(p, "post")
        /\ Count(p) = MaxReadings
        /\ resp[p].status = 200
        /\ Cardinality(ins[p]) = MaxReadings

\* C2 as amended: an authenticated ingestion request whose meter_id passes
\* the validator and whose readings array has more than 100 entries is
\* answered at once with the TooManyReadings client error, and the step
\* changes no row of meters or meter_readings.
C2_TooManyNeverApplied ==
    [][ \A p \in Procs :
          ( /\ Arrives(p, "post")
            /\ validateApiKey(req'[p].apiKey)
            /\ Truthy(req'[p].body.meter_id)
            /\ req'[p].body.readings.isArray
            /\ Len(req'[p].body.readings.items) > MaxReadings )
          => /\ pc'[p] = "responded"
             /\ resp'[p].status = 400
             /\ resp'[p].body.message = "Too many readings (max 100)"
             /\ UNCHANGED store ]_vars

\* a request was refused as TooManyReadings
C2_Witness ==
    \E p \in Procs :
        /\ Responded(p, "post")
        /\ Len(req[p].body.readings.items) = MaxReadings + 1
        /\ resp[p] = TooManyReadings
        /\ ins[p] = {}

\* C2 as claimed: every ingestion request that reaches the handler with more
\* than 100 readings is answered with the TooManyReadings client error and
\* changes nothing.
C2_Original ==
    [][ \A p \in Procs :
          ( /\ Arrives(p, "post")
            /\ validateApiKey(req'[p].apiKey)
            /\ Len(req'[p].body.readings.items) > MaxReadings )
          => /\ pc'[p] = "responded"
             /\ resp'[p].status = 400
             /\ resp'[p].body.message = "Too many readings (max 100)"
             /\ UNCHANGED store ]_vars

\* C3: meters holds exactly one row per meter_id that was upserted; its
\* first_seen is the time of the first upsert of the id, and its last_seen,
\* location and device_info are those of the latest upsert.
C3_OneRecordPerMeter ==
    /\ \A m, o \in meters : m.meter_id = o.meter_id => m = o
    /\ {m.meter_id : m \in meters} = {e.meter_id : e \in hist}
    /\ \A m \in meters : \A e \in hist :
          m.meter_id = e.meter_id =>
             /\ m.first_seen = e.first
             /\ m.last_seen = e.last
             /\ m.location = e.location
             /\ m.device_info = e.device_info

\* a meter was upserted again, later and with other metadata, while another
\* request was in flight
C3_Witness ==
    \E m \in meters :
        /\ m.first_seen < m.last_seen
        /\ m.location = "B"
        /\ \E e \in hist : e.meter_id = m.meter_id /\ e.count = 2
        /\ \E p \in Procs : pc[p] = "insert"

IsSample(sample, b) ==
    /\ sample.timestamp = b.timestamp
    /\ sample.sequence_number = b.sequence
    /\ Len(sample.readings) = Len(b.readings.items)
    /\ {sample.readings[k] : k \in DOMAIN sample.readings}
         = {b.readings.items[k] : k \in DOMAIN b.readings.items}

Ingested(p) ==
    /\ Responded(p, "post")
    /\ resp[p].status = 200
    /\ Count(p) \in 1 .. OverFetch
    /\ Cardinality({r.obis_code : r \in {req[p].body.readings.items[k] : k \in 1 .. Count(p)}}) = Count(p)

\* C4 as amended: once a sample with timestamp T and N readings of distinct
\* OBIS codes, 1 <= N <= 10, has been ingested with success, and as long as
\* every other row of that meter has a timestamp before T, a latest-samples
\* query with count 1 for the meter answers exactly one logical sample: its
\* timestamp is T and its readings are the N readings of the sample.
C4_LatestIsTheNewestSample ==
    \A p \in Procs :
        ( /\ Ingested(p)
          /\ \A i \in RowsOf(meter_readings, SqlText(req[p].body.meter_id)) \ ins[p] :
                meter_readings[i].timestamp < req[p].body.timestamp )
        => LET answer == LatestAnswer(SqlText(req[p].body.meter_id), JsNumStr(1))
           IN /\ answer.status = 200
              /\ Len(answer.body.data) = 1
              /\ IsSample(answer.body.data[1], req[p].body)

\* a sample of 10 readings was ingested after an older sample of the meter
C4_Witness ==
    \E p \in Procs :
        /\ Ingested(p)
        /\ Count(p) = OverFetch
        /\ RowsOf(meter_readings, SqlText(req[p].body.meter_id)) \ ins[p] # {}
        /\ \A i \in RowsOf(meter_readings, SqlText(req[p].body.meter_id)) \ ins[p] :
              meter_readings[i].timestamp < req[p].body.timestamp

NothingIngestedSince(p) ==
    \A i \in 1 .. Len(meter_readings) : \A j \in ins[p] : i \notin ins[p] => i < j

\* C4 as claimed: the same whatever the rows ingested earlier for the meter,
\* no row having been ingested since.
C4_Original ==
    \A p \in Procs :
        (Ingested(p) /\ NothingIngestedSince(p))
        => LET answer == LatestAnswer(SqlText(req[p].body.meter_id), JsNumStr(1))
           IN /\ answer.status = 200
              /\ Len(answer.body.data) = 1
              /\ IsSample(answer.body.data[1], req[p].body)

WellFormed(data, limit) ==
    /\ Len(data) <= limit
    /\ \A i, j \in DOMAIN data : i < j => data[i].timestamp > data[j].timestamp

\* C5 as amended: for every meter id and every limit parameter that is
\* absent, not a number, zero (1 is used for these) or positive, a
\* latest-samples query the store executes is answered with success and a
\* list of logical samples of pairwise distinct timestamps, in descending
\* order of timestamp, no longer than the limit used, and empty when the
\* meter has no row.
C5_LatestAnswersAList ==
    \A p \in Procs :
        ( /\ Responded(p, "latest")
          /\ err[p] # "StoreError"
          /\ LimitOf(req[p].limit) >= 1 )
        => /\ resp[p].status = 200
           /\ resp[p].body.status = "success"
           /\ WellFormed(resp[p].body.data, LimitOf(req[p].limit))
           /\ RowsOf(meter_readings, req[p].meterId) = {} => resp[p].body.data = << >>

\* a query with limit 2 was answered with two samples, and one for a meter
\* without rows with none
C5_Witness ==
    /\ \E p \in Procs :
        /\ Responded(p, "latest")
        /\ req[p].limit = JsNumStr(2)
        /\ resp[p].status = 200
        /\ Len(resp[p].body.data) = 2
    /\ meter_readings # << >>

\* C5 as claimed: for every meter id and every requested limit the answer
\* is such a list.
C5_Original ==
    \A p \in Procs :
        ( /\ Responded(p, "latest")
          /\ err[p] # "StoreError" )
        => /\ resp[p].status = 200
           /\ resp[p].body.status = "success"
           /\ WellFormed(resp[p].body.data, LimitOf(req[p].limit))
           /\ RowsOf(meter_readings, req[p].meterId) = {} => resp[p].body.data = << >>

\* C6: the validator answers InvalidPayload to every payload whose meter_id
\* is not a non-empty string or whose readings is absent, and such a
\* payload changes neither meters nor meter_readings.
C6_InvalidPayloadRejected ==
    [][ \A p \in Procs :
          ( /\ Arrives(p, "post")
            /\ validateApiKey(req'[p].apiKey)
            /\ \/ ~NonEmptyString(req'[p].body.meter_id)
               \/ ~req'[p].body.readings.isArray )
          => /\ pc'[p] = "responded"
             /\ resp'[p] = InvalidPayload
             /\ UNCHANGED store ]_vars

\* C7: an ingestion request is answered with success only if the upsert and
\* every insertion succeeded; when a store call of it fails, at the upsert
\* or at any row, it is answered 500 with the generic message.
C7_FailureIsReported ==
    \A p \in Procs :
        Responded(p, "post") =>
           /\ err[p] # "none" =>
                 /\ resp[p].status = 500
                 /\ resp[p].body = [status |-> "error", message |-> "DB error"]
           /\ resp[p].status = 200 =>
                 /\ err[p] = "none"
                 /\ Cardinality(ins[p]) = Count(p)
                 /\ \E m \in meters : m.meter_id = SqlText(req[p].body.meter_id)

\* an insertion failed after the upsert and after a row was written
C7_Witness ==
    \E p \in Procs :
        /\ Responded(p, "post")
        /\ err[p] = "StoreError"
        /\ ins[p] # {}
        /\ Cardinality(ins[p]) < Count(p)
        /\ resp[p] = DbError

\* C8: every request to the ingestion and query endpoints is answered,
\* after any history of earlier requests, ingestion requests that ended in
\* a store error among them, given the pool of 10 connections with
\* unbounded waiting and a store that answers every call.
C8_EveryRequestAnswered ==
    \A p \in Procs : (pc[p] \notin {"idle", "responded"}) ~> (pc[p] = "responded")

\* C9: in the meter listing a meter is "online" exactly when less than 2
\* minutes have passed since its latest upsert and "offline" otherwise, every
\* upserted meter is listed, and the listing changes no stored state.
C9_OnlineWithinTwoMinutes ==
    [][ \A p \in Procs :
          (pc[p] = "listQuery" /\ pc'[p] = "responded" /\ resp'[p].status = 200)
          => LET data == resp'[p].body.data
             IN /\ UNCHANGED << meters, meter_readings, hist >>
                /\ {data[k].meter_id : k \in DOMAIN data} = {e.meter_id : e \in hist}
                /\ \A k \in DOMAIN data : \A e \in hist :
                      data[k].meter_id = e.meter_id =>
                         /\ data[k].status \in {"online", "offline"}
                         /\ data[k].status = "online" <=> now - e.last < 2 * 60
                         /\ data[k].last_seen = e.last ]_vars

\* a listing shows a meter contacted 90 seconds ago online and one idle for
\* 3 minutes offline
C9_Witness ==
    \E p \in Procs :
        /\ Responded(p, "list")
        /\ resp[p].status = 200
        /\ \E k, l \in DOMAIN resp[p].body.data :
              /\ resp[p].body.data[k].status = "online"
              /\ now - resp[p].body.data[k].last_seen = 90
              /\ resp[p].body.data[l].status = "offline"
              /\ now - resp[p].body.data[l].last_seen = 3 * 60

Recent(d) ==
    {i \in 1 .. Len(meter_readings) :
        /\ meter_readings[i].timestamp >= now - 7 * Day
        /\ DateOf(meter_readings[i].timestamp) = d}

\* C10: the daily aggregate of the dashboard, evaluated at `now`, has one
\* entry per calendar date with a row in the trailing 7 days, most recent
\* date first; an entry counts and averages only rows not older than
\* now - 7 days, and its average is null when none of them has the OBIS code
\* 1.0.1.7.0.255.
C10_DailyOverSevenDays ==
    [][ \A p \in Procs :
          (pc[p] = "dashDaily" /\ pc'[p] = "responded" /\ resp'[p].status = 200)
          => LET daily == resp'[p].body.data.daily
             IN /\ \A i \in 1 .. Len(meter_readings) :
                      ( /\ meter_readings[i].timestamp >= now - 7 * Day
                        /\ meter_readings[i].timestamp <= now )
                      => \E k \in DOMAIN daily :
                            daily[k].date = DateOf(meter_readings[i].timestamp)
                /\ \A k, l \in DOMAIN daily : k < l => daily[k].date > daily[l].date
                /\ \A k \in DOMAIN daily :
                      LET rows == Recent(daily[k].date)
                          power == {i \in rows : meter_readings[i].obis_code = "1.0.1.7.0.255"}
                      IN /\ rows # {}
                         /\ daily[k].reading_count = Cardinality(rows)
                         /\ daily[k].avg_power.null <=> power = {}
                         /\ power # {} =>
                               /\ daily[k].avg_power.count = Cardinality(power)
                               /\ daily[k].avg_power.sum = SumValues(meter_readings, power) ]_vars

\* a dashboard shows a date with a null average although a row of that date
\* older than 7 days carries the active power
C10_Witness ==
    \E p \in Procs :
        /\ Responded(p, "dashboard")
        /\ resp[p].status = 200
        /\ \E k \in DOMAIN resp[p].body.data.daily :
              LET e == resp[p].body.data.daily[k]
              IN /\ e.avg_power.null
                 /\ e.reading_count = 1
                 /\ \E i \in 1 .. Len(meter_readings) :
                       /\ DateOf(meter_readings[i].timestamp) = e.date
                       /\ meter_readings[i].timestamp < now - 7 * Day
                       /\ meter_readings[i].obis_code = ActivePower

\* an authenticated ingestion request with a non-empty string meter_id and
\* an empty readings array
Heartbeat(r) ==
    /\ r.kind = "post"
    /\ validateApiKey(r.apiKey)
    /\ NonEmptyString(r.body.meter_id)
    /\ r.body.readings.isArray
    /\ Len(r.body.readings.items) = 0

\* C11: an authenticated ingestion request with a valid meter_id and an
\* empty readings array is accepted, not refused by the validator; its
\* upsert leaves exactly one row of meters for the meter_id, created if
\* there was none, with last_seen the time of the upsert, so that the meter
\* listing taken then shows the meter online with the total_readings it had
\* before; the request writes no row of meter_readings; and, every store
\* call having succeeded, it is answered {status: "success",
\* readings_received: 0}.
C11_EmptySampleIsAHeartbeat ==
    [][ \A p \in Procs :
          /\ (Arrives(p, "post") /\ Heartbeat(req'[p]))
             => /\ pc'[p] = "getConnection"
                /\ UNCHANGED store
          /\ (Heartbeat(req[p]) /\ pc[p] = "upsert" /\ pc'[p] = "insert")
             => LET id == req[p].body.meter_id.s
                    row == {m \in meters' : m.meter_id = id}
                IN /\ Cardinality(row) = 1
                   /\ \A m \in row :
                         /\ m.last_seen = now
                         /\ m.first_seen =
                               IF \E o \in meters : o.meter_id = id
                               THEN (CHOOSE o \in meters : o.meter_id = id).first_seen
                               ELSE now
                         /\ MeterEntry(m)'.status = "online"
                         /\ MeterEntry(m)'.total_readings
                               = Cardinality(RowsOf(meter_readings, id))
                   /\ \A o \in meters : o.meter_id # id => o \in meters'
                   /\ meter_readings' = meter_readings
          /\ (Heartbeat(req[p]) /\ pc[p] = "insert" /\ pc'[p] # "insert" /\ err'[p] = "none")
             => /\ resp'[p] = [status |-> 200,
                               body |-> [status |-> "success", readings_received |-> 0]]
                /\ UNCHANGED store
          /\ Heartbeat(req[p]) => ins[p] = {} /\ ins'[p] = {} ]_vars

\* a meter that had a reading stored was upserted again by a request with
\* an empty readings array, answered with success, and a listing then shows
\* it online with that one reading
C11_Witness ==
    \E p, q \in Procs :
        /\ Responded(p, "post")
        /\ Heartbeat(req[p])
        /\ resp[p] = Received(0)
        /\ Responded(q, "list")
        /\ resp[q].status = 200
        /\ \E k \in DOMAIN resp[q].body.data :
              LET e == resp[q].body.data[k]
              IN /\ e.meter_id = req[p].body.meter_id.s
                 /\ e.status = "online"
                 /\ e.total_readings = 1
                 /\ e.location = "B"
                 /\ e.first_seen < e.last_seen
                 /\ Len(meter_readings) = 1

====
